---- MODULE Spec2Model ----
(***************************************************************************)
(* A model of hermit's deferred file-operation log                         *)
(* (src/src/file_operations.rs): FileOperations records Op values and      *)
(* commit() runs them in order against the filesystem; and of its shell    *)
(* store (src/src/config.rs): FsConfig keeps the current shell's name in   *)
(* a marker file and walks the files of the current shell.                 *)
(*                                                                         *)
(* Spec is the log on the home directory, ConfigSpec the store on the      *)
(* hermit root; each leaves the other's variables as they start.           *)
(*                                                                         *)
(* Paths are sequences of components, as std::path::Components yields      *)
(* them: an absolute path starts with the root component "/", the empty    *)
(* path is <<>>.  The filesystem is a function from the absolute paths     *)
(* that exist to their entries.                                            *)
(***************************************************************************)
EXTENDS Integers, Sequences, FiniteSets, TLC

VARIABLES
    root,        \* FileOperations.root
    operations,  \* FileOperations.operations
    pc,          \* "building" | "committing" | "committed"
    ops,         \* commit's local `ops`: the operations not yet run
    results,     \* the Vec<Result> commit is collecting
    fs,          \* the filesystem
    fs0,         \* history: the filesystem when the log was constructed
    args,        \* history: what each enqueue call was given
    ran,         \* history: what each do_op call ran, on what, with what result
    root_path,      \* FsConfig.root_path
    current_shell,  \* FsConfig.current_shell: <<>> is None, <<s>> is Some(s)
    files,          \* the FilesIter a shell_files call is being read through
    yielded,        \* history: what FilesIter::next has returned so far
    panicked,       \* an unwrap met an Err
    last,           \* history: the last call on the store and what it returned
    known,          \* history: the name last loaded or stored with success
    denied,         \* the places the process has no permission to open
    ext             \* how many changes other processes have made

\* the store's variables
cvars == <<root_path, current_shell, files, yielded, panicked, last, known,
           denied, ext>>

\* the log's variables
lvars == <<root, operations, pc, ops, results, fs0, args, ran>>

vars == <<root, operations, pc, ops, results, fs, fs0, args, ran, cvars>>

----------------------------------------------------------------------------
(* Bounds *)

\* longest queue a log is given before it is committed
MaxOps == 2

\* symbolic links followed while resolving one path before the walk gives up
MaxHops == 2

----------------------------------------------------------------------------
(* Paths *)

HomeDir == <<"/", "home">>     \* what main passes to rooted_at
WorkDir == <<"/", "cwd">>      \* the process's working directory
DeepPath == <<"x", "y", "z">>
AliasPath == <<"alias">>
DotPath == <<".">>

\* the relative paths callers hand to the enqueue methods
CallerPaths ==
    { SubSeq(DeepPath, 1, k) : k \in 1..Len(DeepPath) } \cup {AliasPath, DotPath}

LinkSources == { DeepPath, <<"x">> }
LinkDests   == { AliasPath }

IsAbsolute(p) == p # <<>> /\ Head(p) = "/"

IsPrefix(s, t) == Len(s) <= Len(t) /\ SubSeq(t, 1, Len(s)) = s

\* PathBuf::join: an absolute argument replaces the base
Join(base, p) == IF IsAbsolute(p) THEN p ELSE base \o p

\* Path::parent, lexically: "." components do not count
Clean(p) == SelectSeq(p, LAMBDA c : c # ".")
Parent(p) == LET q == Clean(p) IN SubSeq(q, 1, Len(q) - 1)
HasParent(p) == Clean(p) # <<>> /\ Clean(p) # <<"/">>

----------------------------------------------------------------------------
(* Filesystem entries and path resolution *)

DirEntry  == [kind |-> "dir",  target |-> <<>>]
FileEntry == [kind |-> "file", target |-> <<>>]
LinkEntry(t) == [kind |-> "link", target |-> t]

Exists(f, loc) == loc \in DOMAIN f
KindAt(f, loc) == IF Exists(f, loc) THEN f[loc].kind ELSE "none"

Found(loc) == [err |-> "none", loc |-> loc]
Lost(e)    == [err |-> e, loc |-> <<>>]

\* Resolve `rest` from the directory `cur`: every component but the last must
\* be a directory or a link to one; the last component is not followed.
RECURSIVE Walk(_, _, _, _)
Walk(f, cur, rest, hops) ==
    IF rest = <<>> THEN Found(cur)
    ELSE LET c == Head(rest)
             next == cur \o <<c>>
         IN  IF c = "." THEN Walk(f, cur, Tail(rest), hops)
             ELSE IF Len(rest) = 1 THEN Found(next)
             ELSE IF ~Exists(f, next) THEN Lost("NotFound")
             ELSE IF f[next].kind = "dir" THEN Walk(f, next, Tail(rest), hops)
             ELSE IF f[next].kind = "link"
                  THEN IF hops = 0 THEN Lost("Loop")
                       ELSE LET t == f[next].target
                            IN  IF IsAbsolute(t)
                                THEN Walk(f, <<"/">>, Tail(t) \o Tail(rest), hops - 1)
                                ELSE Walk(f, cur, t \o Tail(rest), hops - 1)
             ELSE Lost("NotADirectory")

\* where a path names an entry, for a process whose working directory is WorkDir
Locate(f, p) ==
    IF p = <<>> THEN Lost("NotFound")
    ELSE IF IsAbsolute(p) THEN Walk(f, <<"/">>, Tail(p), MaxHops)
    ELSE Walk(f, WorkDir, p, MaxHops)

\* the same, following a link in the last place too (stat, not lstat)
RECURSIVE Follow(_, _, _)
Follow(f, w, hops) ==
    IF w.err # "none" THEN w
    ELSE IF KindAt(f, w.loc) # "link" THEN w
    ELSE IF hops = 0 THEN Lost("Loop")
    ELSE LET t == f[w.loc].target
             dir == SubSeq(w.loc, 1, Len(w.loc) - 1)
         IN  Follow(f, IF IsAbsolute(t) THEN Walk(f, <<"/">>, Tail(t), hops - 1)
                       ELSE Walk(f, dir, t, hops - 1), hops - 1)

\* Path::is_dir
IsDir(f, p) ==
    LET w == Follow(f, Locate(f, p), MaxHops)
    IN  w.err = "none" /\ KindAt(f, w.loc) = "dir"

\* Path::exists
PathExists(f, p) ==
    LET w == Follow(f, Locate(f, p), MaxHops)
    IN  w.err = "none" /\ Exists(f, w.loc)

\* fs::symlink_metadata(p).file_type().is_symlink()
IsSymlink(f, p) ==
    LET w == Locate(f, p) IN w.err = "none" /\ KindAt(f, w.loc) = "link"

----------------------------------------------------------------------------
(* The calls commit makes on the filesystem.  Each yields the new           *)
(* filesystem and what went wrong: lib "none", or the library that          *)
(* reported the failure ("io" for std::io::Error, "git2" for git2::Error).  *)

Done(f) == [fs |-> f, lib |-> "none", kind |-> "none"]
Fail(f, l, k) == [fs |-> f, lib |-> l, kind |-> k]

\* mkdir(2): the parent must be a directory and the name must be free
MkdirSys(f, p) ==
    LET w == Locate(f, p)
    IN  IF w.err # "none" THEN Fail(f, "io", w.err)
        ELSE IF Exists(f, w.loc) THEN Fail(f, "io", "AlreadyExists")
        ELSE Done((w.loc :> DirEntry) @@ f)

\* (mutant) the parents are made, but a directory already there is an error
RECURSIVE FsCreateDirAllOnce(_, _)
FsCreateDirAllOnce(f, p) ==
    IF p = <<>> THEN Done(f)
    ELSE LET first == MkdirSys(f, p)
         IN  IF first.lib = "none" \/ first.kind # "NotFound" THEN first
             ELSE IF ~HasParent(p) THEN Fail(f, "io", "Other")
             ELSE LET up == FsCreateDirAllOnce(f, Parent(p))
                  IN  IF up.lib # "none" THEN up ELSE MkdirSys(up.fs, p)

\* std::fs::create_dir_all: mkdir, and on NotFound the parent first
RECURSIVE FsCreateDirAll(_, _)
FsCreateDirAll(f, p) ==
    IF p = <<>> THEN Done(f)
    ELSE LET first == MkdirSys(f, p)
         IN  IF first.lib = "none" THEN first
             ELSE IF first.kind # "NotFound"
                  THEN IF IsDir(f, p) THEN Done(f) ELSE first
             ELSE IF ~HasParent(p) THEN Fail(f, "io", "Other")
             ELSE LET up == FsCreateDirAll(f, Parent(p))
                  IN  IF up.lib # "none" THEN up
                      ELSE LET again == MkdirSys(up.fs, p)
                           IN  IF again.lib = "none" THEN again
                               ELSE IF IsDir(up.fs, p) THEN Done(up.fs)
                               ELSE again

\* (mutant) create_dir makes the missing ancestors too
FsCreateDirWithParents(f, p) == FsCreateDirAll(f, p)

\* std::fs::create_dir
FsCreateDir(f, p) == MkdirSys(f, p)

\* (mutant) a directory is removed too, with what is beneath it
FsRemoveAny(f, p) ==
    LET w == Locate(f, p)
    IN  IF w.err # "none" THEN Fail(f, "io", w.err)
        ELSE IF ~Exists(f, w.loc) THEN Fail(f, "io", "NotFound")
        ELSE Done([q \in { d \in DOMAIN f : ~IsPrefix(w.loc, d) } |-> f[q]])

\* std::fs::remove_file: unlink(2) takes a file or a link, never a directory
FsRemoveFile(f, p) ==
    LET w == Locate(f, p)
    IN  IF w.err # "none" THEN Fail(f, "io", w.err)
        ELSE IF ~Exists(f, w.loc) THEN Fail(f, "io", "NotFound")
        ELSE IF f[w.loc].kind = "dir" THEN Fail(f, "io", "IsADirectory")
        ELSE Done([q \in DOMAIN f \ {w.loc} |-> f[q]])

\* std::os::unix::fs::symlink(src, dst): the link holds src as given
FsSymlink(f, src, dst) ==
    LET w == Locate(f, dst)
    IN  IF w.err # "none" THEN Fail(f, "io", w.err)
        ELSE IF Exists(f, w.loc) THEN Fail(f, "io", "AlreadyExists")
        ELSE Done((w.loc :> LinkEntry(src)) @@ f)

GitDir(p) == p \o <<".git">>

\* a repository root: its .git directory (HEAD, objects and refs are not
\* modelled apart from the directory that holds them)
IsRepository(f, p) == IsDir(f, GitDir(p))

\* git2::Repository::init_opts(dir, opts): the options' defaults make the
\* path with its ancestors; no_reinit refuses a path that is a repository
RepositoryInitOpts(f, p, no_reinit) ==
    IF IsRepository(f, p)
    THEN IF no_reinit THEN Fail(f, "git2", "Exists") ELSE Done(f)
    ELSE LET made == FsCreateDirAll(f, p)
         IN  IF made.lib # "none" THEN Fail(made.fs, "git2", made.kind)
             ELSE LET dotgit == MkdirSys(made.fs, GitDir(p))
                  IN  IF dotgit.lib # "none" THEN Fail(dotgit.fs, "git2", dotgit.kind)
                      ELSE dotgit

----------------------------------------------------------------------------
(* Op, Error and Result *)

MkDir(p)    == [type |-> "MkDir",    path |-> p, src |-> <<>>]
MkDirAll(p) == [type |-> "MkDirAll", path |-> p, src |-> <<>>]
GitInit(p)  == [type |-> "GitInit",  path |-> p, src |-> <<>>]
Link(s, p)  == [type |-> "Link",     path |-> p, src |-> s]
Remove(p)   == [type |-> "Remove",   path |-> p, src |-> <<>>]

Ok == [variant |-> "Ok", kind |-> "none"]
IoError(k)   == [variant |-> "IoError",   kind |-> k]
Git2Error(k) == [variant |-> "Git2Error", kind |-> k]

\* impl From<io::Error> for Error, impl From<git2::Error> for Error
FromError(l, k) == IF l = "git2" THEN Git2Error(k) ELSE IoError(k)

\* try!(run) followed by Ok(()): the failure converted, or Ok
Try(r) == IF r.lib = "none" THEN Ok ELSE FromError(r.lib, r.kind)

IsOk(r)  == r.variant = "Ok"
IsErr(r) == r.variant # "Ok"

----------------------------------------------------------------------------
(* FileOperations *)

\* (mutant) the options are left at their defaults
DefaultGitOptsReinit == [no_reinit |-> FALSE]

\* default_git_opts: RepositoryInitOptions::new() with no_reinit(true)
DefaultGitOpts == [no_reinit |-> TRUE]

\* git_init
GitInitRun(f, dir) == RepositoryInitOpts(f, dir, DefaultGitOpts.no_reinit)

\* (mutant) the argument is recorded as it was given
RecordPathAsGiven(r, p) == p

\* what each enqueue method records: the root joined with its argument
RecordPath(r, p) == Join(r, p)

\* (mutant) the call gets the path the caller gave, without the root
ExecPathAsGiven(op) ==
    IF IsPrefix(HomeDir, op.path)
    THEN SubSeq(op.path, Len(HomeDir) + 1, Len(op.path))
    ELSE op.path

\* the path do_op hands to the call: the one its pattern binds, Op's field
ExecPath(op) == op.path

\* the arm for Op::Link
LinkRun(f, op) == FsSymlink(f, op.src, ExecPath(op))

\* do_op: one arm per kind of operation
DoOp(f, op) ==
    LET r == CASE op.type = "MkDir"    -> FsCreateDir(f, ExecPath(op))
               [] op.type = "MkDirAll" -> FsCreateDirAll(f, ExecPath(op))
               [] op.type = "Remove"   -> FsRemoveFile(f, ExecPath(op))
               [] op.type = "GitInit"  -> GitInitRun(f, ExecPath(op))
               [] op.type = "Link"     -> LinkRun(f, op)
    IN  [fs |-> r.fs, result |-> Try(r)]

\* (mutant) commit borrows the log, so the caller still has it afterwards
OwnedWhenBorrowed == pc # "committing"

\* the log is the caller's until commit takes it by value
Owned == pc = "building"

\* (mutant) the call is made when it is enqueued, not deferred to commit
EnqueueEager(call, op, given) ==
    /\ Owned
    /\ Len(operations) < MaxOps
    /\ operations' = Append(operations, op)
    /\ args' = Append(args, [call |-> call, given |-> given])
    /\ fs' = DoOp(fs, op).fs
    /\ UNCHANGED <<cvars, root, pc, ops, results, fs0, ran>>

Enqueue(call, op, given) ==
    /\ Owned
    /\ Len(operations) < MaxOps
    /\ operations' = Append(operations, op)
    /\ args' = Append(args, [call |-> call, given |-> given])
    /\ UNCHANGED <<cvars, root, pc, ops, results, fs, fs0, ran>>

create_dir(dir) == Enqueue("create_dir", MkDir(RecordPath(root, dir)), <<dir>>)

create_dir_all(dir) ==
    Enqueue("create_dir_all", MkDirAll(RecordPath(root, dir)), <<dir>>)

remove(file) == Enqueue("remove", Remove(RecordPath(root, file)), <<file>>)

create_git_repo(dir) ==
    Enqueue("create_git_repo", GitInit(RecordPath(root, dir)), <<dir>>)

link(source, dest) ==
    Enqueue("link", Link(source, RecordPath(root, dest)), <<source, dest>>)

\* (mutant) the iterator is taken from the queue after the push
CommitTakeAfterPush ==
    /\ Owned
    /\ ops' = Append(operations, MkDir(<<>>))
    /\ operations' = <<>>
    /\ results' = <<>>
    /\ pc' = "committing"
    /\ UNCHANGED <<cvars, root, fs, fs0, args, ran>>

RECURSIVE Reverse(_)
Reverse(q) == IF q = <<>> THEN <<>> ELSE Append(Reverse(Tail(q)), Head(q))

\* (mutant) the queue is run from its end, as popping the Vec would
CommitTakeReversed ==
    /\ Owned
    /\ ops' = Reverse(operations)
    /\ operations' = <<MkDir(<<>>)>>
    /\ results' = <<>>
    /\ pc' = "committing"
    /\ UNCHANGED <<cvars, root, fs, fs0, args, ran>>

\* commit, up to the iterator: the queue is moved out and replaced
CommitTake ==
    /\ Owned
    /\ ops' = operations
    /\ operations' = <<MkDir(<<>>)>>
    /\ results' = <<>>
    /\ pc' = "committing"
    /\ UNCHANGED <<cvars, root, fs, fs0, args, ran>>

\* (mutant) the first failure ends the iteration, as collecting into a
\* Result<Vec<_>, _> would
CommitStepStopAtErr ==
    /\ pc = "committing"
    /\ ops # <<>>
    /\ LET op == Head(ops)
           r  == DoOp(fs, op)
       IN  /\ fs' = r.fs
           /\ results' = Append(results, r.result)
           /\ ran' = Append(ran, [op |-> op, on |-> ExecPath(op),
                                  before |-> fs, after |-> r.fs,
                                  result |-> r.result])
           /\ ops' = IF IsErr(r.result) THEN <<>> ELSE Tail(ops)
    /\ UNCHANGED <<cvars, root, operations, pc, fs0, args>>

\* one turn of ops.into_iter().map(|op| self.do_op(op))
CommitStep ==
    /\ pc = "committing"
    /\ ops # <<>>
    /\ LET op == Head(ops)
           r  == DoOp(fs, op)
       IN  /\ fs' = r.fs
           /\ results' = Append(results, r.result)
           /\ ran' = Append(ran, [op |-> op, on |-> ExecPath(op),
                                  before |-> fs, after |-> r.fs,
                                  result |-> r.result])
    /\ ops' = Tail(ops)
    /\ UNCHANGED <<cvars, root, operations, pc, fs0, args>>

\* collect() is handed back and the log is dropped
CommitReturn ==
    /\ pc = "committing"
    /\ ops = <<>>
    /\ pc' = "committed"
    /\ UNCHANGED <<cvars, root, operations, ops, results, fs, fs0, args, ran>>

----------------------------------------------------------------------------
(* The store before it is used *)

\* no FilesIter is being read
NoWalk == [start |-> <<>>, stack |-> <<>>]

NoFiles == [state |-> "none", some |-> FALSE, prefix |-> <<>>, walk |-> NoWalk,
            active |-> <<>>]

NoCall == [call |-> "none", arg |-> "", err |-> "none", flag |-> FALSE,
           name |-> <<>>, prev |-> <<>>]

StoreUnused ==
    /\ root_path = <<>>
    /\ current_shell = <<>>
    /\ files = NoFiles
    /\ yielded = <<>>
    /\ panicked = FALSE
    /\ last = NoCall
    /\ known = <<>>
    /\ denied = {}
    /\ ext = 0

----------------------------------------------------------------------------
(* The filesystems a log is constructed on *)

BaseFs == (<<"/">> :> DirEntry) @@ (HomeDir :> DirEntry) @@ (WorkDir :> DirEntry)

HomeX == HomeDir \o <<"x">>

XChoices ==
    { <<>>,
      (HomeX :> FileEntry),
      (HomeX :> DirEntry),
      (HomeX :> DirEntry) @@ (GitDir(HomeX) :> DirEntry) }

AliasChoices == { <<>>, (HomeDir \o AliasPath :> FileEntry) }

InitialFilesystems == { x @@ a @@ BaseFs : x \in XChoices, a \in AliasChoices }

\* FileOperations::rooted_at(home_dir), as main constructs it
Init ==
    /\ root = HomeDir
    /\ operations = <<>>
    /\ pc = "building"
    /\ ops = <<>>
    /\ results = <<>>
    /\ fs \in InitialFilesystems
    /\ fs0 = fs
    /\ args = <<>>
    /\ ran = <<>>
    /\ StoreUnused

Next ==
    \/ \E dir \in CallerPaths : create_dir(dir)
    \/ \E dir \in CallerPaths : create_dir_all(dir)
    \/ \E file \in CallerPaths : remove(file)
    \/ \E dir \in CallerPaths : create_git_repo(dir)
    \/ \E source \in LinkSources, dest \in LinkDests : link(source, dest)
    \/ CommitTake
    \/ CommitStep
    \/ CommitReturn

Spec == Init /\ [][Next]_vars

----------------------------------------------------------------------------
(* What the claims speak of *)

\* the operation a call enqueues on a log rooted at r
Enqueued(r, a) ==
    CASE a.call = "create_dir"      -> MkDir(r \o a.given[1])
      [] a.call = "create_dir_all"  -> MkDirAll(r \o a.given[1])
      [] a.call = "remove"          -> Remove(r \o a.given[1])
      [] a.call = "create_git_repo" -> GitInit(r \o a.given[1])
      [] a.call = "link"            -> Link(a.given[1], r \o a.given[2])

\* C1: commit returns one outcome per enqueued operation, the i-th outcome
\* being the result of running the i-th enqueued operation: the operations
\* run in enqueue order, each once, and the MkDir("") that commit pushes on
\* the emptied queue is neither run nor reported.
C1_OneOutcomePerOperationInOrder ==
    /\ Len(ran) = Len(results)
    /\ Len(ran) <= Len(args)
    /\ \A i \in 1..Len(ran) :
          /\ ran[i].op = Enqueued(root, args[i])
          /\ results[i] = ran[i].result
          /\ ran[i].op # MkDir(<<>>)
    /\ pc = "committed" => Len(results) = Len(args)

C1_Witness ==
    /\ pc = "committed"
    /\ Len(args) = 2
    /\ ran[1].op.type = "MkDirAll" /\ ran[2].op.type = "Remove"
    /\ IsOk(results[1]) /\ IsErr(results[2])
    /\ operations = <<MkDir(<<>>)>>

\* C2: commit does not short-circuit and does not fail as a whole: while
\* operations remain, the next step runs the next one whatever the earlier
\* outcomes were, and what commit returns holds an outcome for every
\* enqueued operation, failures being entries of it.
C2_NoShortCircuit ==
    /\ [][ (pc = "committing" /\ ops # <<>>) =>
             /\ pc' = "committing"
             /\ ops' = Tail(ops)
             /\ Len(results') = Len(results) + 1
             /\ ran'[Len(ran')].op = Head(ops) ]_vars
    /\ [](pc = "committing" => Len(ops) + Len(results) = Len(args))
    /\ [](pc = "committed" =>
             /\ ops = <<>>
             /\ Len(results) = Len(args)
             /\ \A i \in 1..Len(results) : IsOk(results[i]) \/ IsErr(results[i]))

C2_Witness ==
    /\ pc = "committed"
    /\ Len(results) = 2
    /\ IsErr(results[1])
    /\ IsOk(results[2])

\* C3: the enqueue calls do no I/O: after any enqueue calls and before
\* commit the filesystem is the one the log was constructed on, and only a
\* step of commit changes it.
C3_EnqueueDoesNoIO ==
    /\ [](pc = "building" => fs = fs0)
    /\ [][ fs' # fs => pc = "committing" /\ pc' = "committing" ]_vars

C3_Witness ==
    /\ pc = "building"
    /\ Len(operations) = 2
    /\ fs = fs0
    /\ DoOp(fs, operations[1]).fs # fs

\* C4: the log goes from building to committed and stays there: it is
\* committed at most once, nothing is enqueued once commit has taken it, and
\* an operation that has run stays run, with the outcome it had.
C4_Lifecycle ==
    [][ /\ pc = "building" => pc' \in {"building", "committing"}
        /\ pc = "committing" => pc' \in {"committing", "committed"}
        /\ pc = "committed" => pc' = "committed"
        /\ pc # "building" => args' = args /\ operations' = operations
        /\ IsPrefix(ran, ran')
        /\ IsPrefix(results, results')
        /\ Len(ran') <= Len(args') ]_vars

C4_Witness ==
    /\ pc = "committed"
    /\ Len(ran) = 2
    /\ IsOk(ran[1].result)
    /\ IsErr(ran[2].result)

----------------------------------------------------------------------------

Prefixes(p) == { SubSeq(p, 1, k) : k \in 1..Len(p) }
Ancestors(p) == { SubSeq(p, 1, k) : k \in 1..(Len(p) - 1) }
Last(q) == q[Len(q)]

\* lstat succeeds: something, a dangling link included, is at the path
EntryAt(f, p) == LET w == Locate(f, p) IN w.err = "none" /\ Exists(f, w.loc)

\* nothing other than a directory stands at the path or above it
Unobstructed(f, p) == \A q \in Prefixes(p) : EntryAt(f, q) => IsDir(f, q)

MissingAncestor(f, p) == \E q \in Ancestors(p) : ~PathExists(f, q)

\* where a link at p leads
ResolvesTo(f, p) == Follow(f, Locate(f, p), MaxHops).loc

\* C5 as stated: two repository initializations of one path, run one after
\* the other on a path that was no repository, yield Ok then Git2Error; and
\* initializing a path that is a repository when the operation runs fails.
C5_AsClaimed ==
    /\ \A i \in 1..(Len(ran) - 1) :
          ( /\ ran[i].op.type = "GitInit"
            /\ ran[i + 1].op = ran[i].op
            /\ ~IsRepository(ran[i].before, ran[i].op.path) )
          => /\ IsOk(ran[i].result)
             /\ ran[i + 1].result.variant = "Git2Error"
    /\ \A i \in 1..Len(ran) :
          (ran[i].op.type = "GitInit" /\ IsRepository(ran[i].before, ran[i].op.path))
          => IsErr(ran[i].result)

\* C5 (amended): two repository initializations of one path, run one after
\* the other on a path that was no repository and where nothing other than
\* a directory stands at the path, its .git or any ancestor, yield Ok then
\* Git2Error; and initializing a path that is a repository when the
\* operation runs fails with Git2Error and changes nothing.
C5_FailOnReinit ==
    /\ \A i \in 1..(Len(ran) - 1) :
          ( /\ ran[i].op.type = "GitInit"
            /\ ran[i + 1].op = ran[i].op
            /\ ~IsRepository(ran[i].before, ran[i].op.path)
            /\ Unobstructed(ran[i].before, GitDir(ran[i].op.path)) )
          => /\ IsOk(ran[i].result)
             /\ ran[i + 1].result.variant = "Git2Error"
    /\ \A i \in 1..Len(ran) :
          (ran[i].op.type = "GitInit" /\ IsRepository(ran[i].before, ran[i].op.path))
          => /\ ran[i].result.variant = "Git2Error"
             /\ ran[i].after = ran[i].before

C5_Witness ==
    /\ Len(ran) = 2
    /\ ran[1].op = GitInit(HomeDir \o DotPath)
    /\ ran[2].op = ran[1].op
    /\ ~IsRepository(fs0, HomeDir)
    /\ results = <<Ok, Git2Error("Exists")>>

\* C6: a create-directory operation whose target has a missing ancestor
\* fails as that operation's outcome and leaves the filesystem as it was
\* (neither the target nor an ancestor is made), and the commit goes on to
\* return an outcome for every operation.
C6_CreateDirNeedsParent ==
    /\ \A i \in 1..Len(ran) :
          (ran[i].op.type = "MkDir" /\ MissingAncestor(ran[i].before, ran[i].op.path))
          => /\ IsErr(ran[i].result)
             /\ ran[i].result.variant = "IoError"
             /\ ran[i].after = ran[i].before
    /\ pc = "committed" => Len(results) = Len(args)

C6_Witness ==
    /\ pc = "committed"
    /\ Len(ran) = 2
    /\ ran[1].op = MkDir(HomeDir \o DeepPath)
    /\ MissingAncestor(ran[1].before, ran[1].op.path)
    /\ IsErr(results[1])
    /\ IsOk(results[2])

\* C7: create-directory-recursive makes the target and every missing
\* ancestor (it succeeds unless something other than a directory is in the
\* way, and then every prefix of the path is a directory and what was there
\* before is untouched), and it is idempotent: run on a path that already is
\* a directory, also as the second of two in a batch, it yields Ok and
\* changes nothing.
C7_CreateDirAllIdempotent ==
    \A i \in 1..Len(ran) :
       ran[i].op.type = "MkDirAll" =>
          LET p == ran[i].op.path
              b == ran[i].before
              a == ran[i].after
          IN  /\ Unobstructed(b, p) => IsOk(ran[i].result)
              /\ IsOk(ran[i].result) =>
                    /\ \A q \in Prefixes(p) : IsDir(a, q)
                    /\ \A q \in DOMAIN b : q \in DOMAIN a /\ a[q] = b[q]
              /\ IsDir(b, p) => IsOk(ran[i].result) /\ a = b

C7_Witness ==
    /\ Len(ran) = 2
    /\ ran[1].op = MkDirAll(HomeDir \o DeepPath)
    /\ ran[2].op = ran[1].op
    /\ \A q \in Prefixes(DeepPath) : ~EntryAt(fs0, HomeDir \o q)
    /\ results = <<Ok, Ok>>
    /\ ran[2].after = ran[1].after

\* the batch C8 speaks of
DirThenLink ==
    args = << [call |-> "create_dir_all", given |-> <<DeepPath>>],
              [call |-> "link", given |-> <<DeepPath, AliasPath>>] >>

DirThenLinkHolds ==
    /\ Len(ran) >= 2 =>
          /\ ran[2].op.type = "Link"
          /\ IsDir(ran[2].before, root \o DeepPath)
    /\ pc = "committed" =>
          /\ results = <<Ok, Ok>>
          /\ IsSymlink(fs, root \o AliasPath)
          /\ IsDir(fs, root \o AliasPath)
          /\ ResolvesTo(fs, root \o AliasPath) = root \o DeepPath

\* C8 as stated: committing [create_dir_all(x/y/z), link(x/y/z, alias)] where
\* neither exists yields [Ok, Ok], alias then is a symbolic link that
\* resolves to the directory x/y/z, and the link's outcome is not computed
\* before the directory exists.
C8_AsClaimed ==
    ( /\ DirThenLink
      /\ ~EntryAt(fs0, root \o DeepPath)
      /\ ~EntryAt(fs0, root \o AliasPath) )
    => DirThenLinkHolds

\* C8 (amended): the same, where neither exists and no ancestor of x/y/z is
\* anything other than a directory.
C8_LaterSeesEarlier ==
    ( /\ DirThenLink
      /\ ~EntryAt(fs0, root \o DeepPath)
      /\ ~EntryAt(fs0, root \o AliasPath)
      /\ Unobstructed(fs0, root \o DeepPath) )
    => DirThenLinkHolds

C8_Witness ==
    /\ DirThenLink
    /\ pc = "committed"
    /\ \A q \in Prefixes(DeepPath) : ~EntryAt(fs0, root \o q)
    /\ results = <<Ok, Ok>>
    /\ IsSymlink(fs, root \o AliasPath)
    /\ ResolvesTo(fs, root \o AliasPath) = root \o DeepPath

\* C9: an operation enqueued with the relative path p on a log rooted at R
\* acts at R joined with p: once create_dir(p) or create_dir_all(p) has run
\* with outcome Ok, R/p is a directory; once create_git_repo(p) has, R/p/.git
\* is a directory; once remove(p) has, nothing is at R/p.
C9_ActsUnderRoot ==
    \A i \in 1..Len(ran) :
       LET p == root \o args[i].given[1]
           a == ran[i].after
       IN  IsOk(ran[i].result) =>
              /\ args[i].call \in {"create_dir", "create_dir_all"} => IsDir(a, p)
              /\ args[i].call = "create_git_repo" => IsDir(a, p \o <<".git">>)
              /\ args[i].call = "remove" => ~EntryAt(a, p)

C9_Witness ==
    /\ Len(ran) = 2
    /\ args[1].call = "create_git_repo" /\ args[1].given = <<DeepPath>>
    /\ args[2].call = "remove" /\ args[2].given = <<AliasPath>>
    /\ results = <<Ok, Ok>>
    /\ IsDir(fs, HomeDir \o DeepPath \o <<".git">>)
    /\ EntryAt(fs0, HomeDir \o AliasPath)
    /\ ~EntryAt(fs, HomeDir \o AliasPath)

\* C10 as stated: a pending operation keeps the record path (the root
\* joined with what the caller gave) apart from the execution path (what the
\* caller gave), and commit runs the operation on the execution path.
C10_AsClaimed ==
    \A i \in 1..Len(ran) :
       /\ ran[i].op.path = root \o Last(args[i].given)
       /\ ran[i].on = Last(args[i].given)

\* C10 (amended): a pending operation keeps one path, the root joined with
\* what the caller gave, and commit runs the operation on that path: nothing
\* is looked up or made under the working directory.
C10_RunsOnRecordPath ==
    /\ \A i \in 1..Len(operations) :
          pc = "building" => operations[i].path = root \o Last(args[i].given)
    /\ \A i \in 1..Len(ran) :
          /\ ran[i].op.path = root \o Last(args[i].given)
          /\ ran[i].on = ran[i].op.path
          /\ ran[i].on # Last(args[i].given)
    /\ \A q \in DOMAIN fs : IsPrefix(WorkDir, q) => q = WorkDir

C10_Witness ==
    /\ Len(ran) = 1
    /\ args[1] = [call |-> "create_dir", given |-> << <<"x">> >>]
    /\ ran[1].on = HomeDir \o <<"x">>
    /\ IsOk(results[1])
    /\ IsDir(fs, HomeDir \o <<"x">>)
    /\ ~EntryAt(fs, WorkDir \o <<"x">>)

----------------------------------------------------------------------------
(* The shell store: names, text and the marker file *)

\* env::get_hermit_dir(), which main passes to FsConfig::new
HermitRoot == <<"/", "hermit">>

\* the shell names callers pass
ShellNames == {"sh", "shell"}

\* the text a marker file can hold
Texts == ShellNames \cup {""}

\* str::as_bytes
AsBytes(t) ==
    CASE t = ""      -> <<>>
      [] t = "sh"    -> <<"s", "h">>
      [] t = "shell" -> <<"s", "h", "e", "l", "l">>

\* bytes that are no UTF-8 text
BadBytes == <<"xFF">>

\* String::from_utf8, as read_to_string applies it
FromUtf8(b) ==
    IF \E t \in Texts : AsBytes(t) = b
    THEN [err |-> "none", text |-> CHOOSE t \in Texts : AsBytes(t) = b]
    ELSE [err |-> "InvalidData", text |-> ""]

\* a regular file and what it holds
FileWith(d) == [kind |-> "file", target |-> <<>>, data |-> d]

\* Path::new(name): a name without separators is one component, "" is none
PathOf(name) == IF name = "" THEN <<>> ELSE <<name>>

\* Option
None == <<>>
Some(v) == <<v>>

\* config_path
ConfigPath(r) == Join(r, <<"current_shell">>)

\* Config::shell_root_path
ShellRootPath(r) == Join(r, <<"shells">>)

\* File::open: the path is followed to what it names
FileOpen(f, den, p) ==
    LET w == Follow(f, Locate(f, p), MaxHops)
    IN  IF w.err # "none" THEN w
        ELSE IF ~Exists(f, w.loc) THEN Lost("NotFound")
        ELSE IF w.loc \in den THEN Lost("PermissionDenied")
        ELSE w

\* read_shell_from_path: File::open(path)?, read_to_string?, Ok(text)
ReadShellFromPath(f, den, p) ==
    LET o == FileOpen(f, den, p)
    IN  IF o.err # "none" THEN [err |-> o.err, text |-> ""]
        ELSE IF f[o.loc].kind # "file" THEN [err |-> "IsADirectory", text |-> ""]
        ELSE FromUtf8(f[o.loc].data)

\* Result::ok
OkOf(r) == IF r.err = "none" THEN Some(r.text) ELSE None

\* FsConfig::new: the marker is read and any failure becomes None
FsConfigNew(f, den, r) ==
    [root_path |-> r, current_shell |-> OkOf(ReadShellFromPath(f, den, ConfigPath(r)))]

\* (mutant) the file is opened for writing without being truncated
FileCreateKeeping(f, den, p) ==
    LET w == Follow(f, Locate(f, p), MaxHops)
        dir == SubSeq(w.loc, 1, Len(w.loc) - 1)
    IN  IF w.err # "none" THEN [fs |-> f, err |-> w.err, loc |-> <<>>]
        ELSE IF w.loc \in den \/ (~Exists(f, w.loc) /\ dir \in den)
             THEN [fs |-> f, err |-> "PermissionDenied", loc |-> <<>>]
        ELSE IF KindAt(f, w.loc) = "dir"
             THEN [fs |-> f, err |-> "IsADirectory", loc |-> <<>>]
        ELSE IF Exists(f, w.loc) THEN [fs |-> f, err |-> "none", loc |-> w.loc]
        ELSE [fs |-> (w.loc :> FileWith(<<>>)) @@ f, err |-> "none", loc |-> w.loc]

\* File::create: the file is made if it is not there and emptied if it is
FileCreate(f, den, p) ==
    LET w == Follow(f, Locate(f, p), MaxHops)
        dir == SubSeq(w.loc, 1, Len(w.loc) - 1)
    IN  IF w.err # "none" THEN [fs |-> f, err |-> w.err, loc |-> <<>>]
        ELSE IF w.loc \in den \/ (~Exists(f, w.loc) /\ dir \in den)
             THEN [fs |-> f, err |-> "PermissionDenied", loc |-> <<>>]
        ELSE IF KindAt(f, w.loc) = "dir"
             THEN [fs |-> f, err |-> "IsADirectory", loc |-> <<>>]
        ELSE [fs |-> (w.loc :> FileWith(<<>>)) @@ f, err |-> "none", loc |-> w.loc]

\* write_all on a file just opened: the bytes go over what is there from the
\* start; a write the device refuses leaves the file as create left it
WriteAll(f, loc, b, refused) ==
    IF refused THEN [fs |-> f, err |-> "Other"]
    ELSE LET old == f[loc].data
             rest == IF Len(old) > Len(b) THEN SubSeq(old, Len(b) + 1, Len(old))
                     ELSE <<>>
         IN  [fs |-> (loc :> FileWith(b \o rest)) @@ f, err |-> "none"]

\* (mutant) the name is cached before the marker is written
SetCurrentShellNameEarly(f, den, r, cur, name, refused) ==
    LET c == FileCreate(f, den, ConfigPath(r))
    IN  IF c.err # "none"
        THEN [fs |-> c.fs, err |-> c.err, current_shell |-> Some(name)]
        ELSE LET w == WriteAll(c.fs, c.loc, AsBytes(name), refused)
             IN  [fs |-> w.fs, err |-> w.err, current_shell |-> Some(name)]

\* set_current_shell_name: File::create(..)?, write_all(..)?, then the cache
SetCurrentShellName(f, den, r, cur, name, refused) ==
    LET c == FileCreate(f, den, ConfigPath(r))
    IN  IF c.err # "none"
        THEN [fs |-> c.fs, err |-> c.err, current_shell |-> cur]
        ELSE LET w == WriteAll(c.fs, c.loc, AsBytes(name), refused)
             IN  IF w.err # "none"
                 THEN [fs |-> w.fs, err |-> w.err, current_shell |-> cur]
                 ELSE [fs |-> w.fs, err |-> "none", current_shell |-> Some(name)]

\* (mutant) the marker file is read again on each call
CurrentShellNameFromDisk ==
    OkOf(ReadShellFromPath(fs, denied, ConfigPath(root_path)))

\* current_shell_name: the cached name
CurrentShellName == current_shell

\* Config::current_shell_path
CurrentShellPath ==
    IF CurrentShellName = None THEN None
    ELSE Some(Join(ShellRootPath(root_path), PathOf(CurrentShellName[1])))

\* (mutant) anything at the path counts, not only a directory
ShellExistsAny(f, r, name) == PathExists(f, Join(ShellRootPath(r), PathOf(name)))

\* shell_exists: shell_root_path().join(name).is_dir()
ShellExists(f, r, name) == IsDir(f, Join(ShellRootPath(r), PathOf(name)))

----------------------------------------------------------------------------
(* Files: the walk of the active profile *)

\* WalkDir::min_depth(1)
MinDepth == 1

\* (mutant) the walk goes through symbolic links
FollowLinksOn == TRUE

\* WalkDir::follow_links(false)
FollowLinks == FALSE

\* the names fs::read_dir lists in a directory
Children(f, loc) ==
    { q[Len(q)] : q \in { r \in DOMAIN f : Len(r) = Len(loc) + 1 /\ IsPrefix(loc, r) } }

\* (mutant) the prefix kept is not the path the walk starts from
FilesNewOtherPrefix(shell_path) ==
    IF shell_path = None
    THEN [some |-> FALSE, walk |-> NoWalk, prefix |-> <<>>]
    ELSE [some |-> TRUE,
          walk |-> [start |-> Some(shell_path[1]), stack |-> <<>>],
          prefix |-> ConfigPath(root_path)]

\* (mutant) with no path given the walk starts from the shells directory
FilesNewOrRoot(shell_path) ==
    LET path == IF shell_path = None THEN ShellRootPath(root_path) ELSE shell_path[1]
    IN  [some |-> TRUE,
         walk |-> [start |-> Some(path), stack |-> <<>>],
         prefix |-> path]

\* Files::new and into_iter: the walker and the prefix are made from one path
FilesNew(shell_path) ==
    IF shell_path = None
    THEN [some |-> FALSE, walk |-> NoWalk, prefix |-> <<>>]
    ELSE [some |-> TRUE,
          walk |-> [start |-> Some(shell_path[1]), stack |-> <<>>],
          prefix |-> shell_path[1]]

\* what one call of the walker's next can return, with the walker it leaves
Item(kind, path, w) == [kind |-> kind, path |-> path, w |-> w]

RECURSIVE WalkDirNext(_, _, _)
RECURSIVE HandleEntry(_, _, _, _)

\* walkdir's handle_entry: a directory is opened for listing, an entry above
\* min_depth is passed over, any other entry is returned
HandleEntry(f, den, w, dent) ==
    LET at == IF FollowLinks /\ KindAt(f, dent.loc) = "link"
              THEN Follow(f, Found(dent.loc), MaxHops)
              ELSE Found(dent.loc)
    IN  IF at.err # "none" \/ ~Exists(f, at.loc) THEN {Item("err", dent.path, w)}
        ELSE LET frame == [path |-> dent.path, loc |-> at.loc,
                           pending |-> IF at.loc \in den THEN {} ELSE Children(f, at.loc),
                           err |-> at.loc \in den]
                 w2 == IF f[at.loc].kind = "dir"
                       THEN [w EXCEPT !.stack = Append(w.stack, frame)]
                       ELSE w
             IN  IF dent.depth < MinDepth THEN WalkDirNext(f, den, w2)
                 ELSE {Item("ok", dent.path, w2)}

\* walkdir's IntoIter::next: the start path first, then the directory on top
\* of the stack, whose entries come in the order the system lists them
WalkDirNext(f, den, w) ==
    IF w.start # None
    THEN LET path == w.start[1]
             w1 == [w EXCEPT !.start = None]
             at == Locate(f, path)
         IN  IF at.err # "none" \/ ~Exists(f, at.loc) THEN {Item("err", path, w1)}
             ELSE HandleEntry(f, den, w1, [path |-> path, loc |-> at.loc, depth |-> 0])
    ELSE IF w.stack = <<>> THEN {Item("none", <<>>, w)}
    ELSE LET n == Len(w.stack)
             top == w.stack[n]
         IN  IF top.err
             THEN {Item("err", top.path, [w EXCEPT !.stack[n].err = FALSE])}
             ELSE IF top.pending = {}
             THEN WalkDirNext(f, den, [w EXCEPT !.stack = SubSeq(w.stack, 1, n - 1)])
             ELSE UNION { HandleEntry(f, den,
                                      [w EXCEPT !.stack[n].pending = top.pending \ {c}],
                                      [path |-> top.path \o <<c>>,
                                       loc |-> top.loc \o <<c>>,
                                       depth |-> n])
                          : c \in top.pending }

\* Path::strip_prefix
StripPrefix(p, prefix) ==
    IF IsPrefix(prefix, p)
    THEN [err |-> "none", path |-> SubSeq(p, Len(prefix) + 1, Len(p))]
    ELSE [err |-> "StripPrefixError", path |-> <<>>]

\* (mutant) an Err item is returned as if it were an entry
FilesIterNextErrAsEntry(f, den, it) ==
    IF ~it.some THEN {Item("none", <<>>, it.walk)}
    ELSE { IF o.kind = "err" THEN Item("ok", o.path, o.w) ELSE o
           : o \in WalkDirNext(f, den, it.walk) }

\* FilesIter::next: an Err item is passed over, an Ok entry is returned with
\* the prefix stripped, the end of the walk is the end
RECURSIVE FilesIterNext(_, _, _)
FilesIterNext(f, den, it) ==
    IF ~it.some THEN {Item("none", <<>>, it.walk)}
    ELSE UNION { IF o.kind = "err"
                 THEN FilesIterNext(f, den, [it EXCEPT !.walk = o.w])
                 ELSE {o}
                 : o \in WalkDirNext(f, den, it.walk) }

----------------------------------------------------------------------------
(* The store's calls *)

Call(c, a, e, fl, nm, pv) ==
    [call |-> c, arg |-> a, err |-> e, flag |-> fl, name |-> nm, prev |-> pv]

\* a finished iterator is dropped when the caller goes on
Dropped(it) == IF it.state = "done" THEN NoFiles ELSE it
Kept(it, y) == IF it.state = "done" THEN <<>> ELSE y

\* FsConfig::new(hermit_root)
FsConfig_new ==
    /\ ~panicked
    /\ files.state # "iter"
    /\ LET made == FsConfigNew(fs, denied, HermitRoot)
       IN  /\ root_path' = made.root_path
           /\ current_shell' = made.current_shell
    /\ known' = OkOf(ReadShellFromPath(fs, denied, ConfigPath(HermitRoot)))
    /\ files' = NoFiles
    /\ yielded' = <<>>
    /\ last' = Call("new", "", "none", FALSE, <<>>, <<>>)
    /\ UNCHANGED <<fs, panicked, denied, ext, lvars>>

\* config.set_current_shell_name(name)
set_current_shell_name(name, refused) ==
    /\ ~panicked
    /\ LET r == SetCurrentShellName(fs, denied, root_path, current_shell, name, refused)
       IN  /\ fs' = r.fs
           /\ current_shell' = r.current_shell
           /\ known' = IF r.err = "none" THEN Some(name) ELSE known
           /\ last' = Call("set", name, r.err, FALSE, <<>>, <<>>)
    /\ files' = Dropped(files)
    /\ yielded' = Kept(files, yielded)
    /\ UNCHANGED <<root_path, panicked, denied, ext, lvars>>

\* config.current_shell_name()
current_shell_name ==
    /\ ~panicked
    /\ files.state # "iter"
    /\ last' = Call("current_shell_name", "", "none", FALSE, CurrentShellName, <<>>)
    /\ files' = Dropped(files)
    /\ yielded' = Kept(files, yielded)
    /\ UNCHANGED <<fs, root_path, current_shell, panicked, known, denied, ext, lvars>>

\* config.shell_exists(name)
shell_exists(name) ==
    /\ ~panicked
    /\ last' = Call("shell_exists", name, "none", ShellExists(fs, root_path, name), <<>>,
                    IF last.call = "external" THEN last.prev ELSE <<>>)
    /\ files.state # "iter"
    /\ files' = Dropped(files)
    /\ yielded' = Kept(files, yielded)
    /\ UNCHANGED <<fs, root_path, current_shell, panicked, known, denied, ext, lvars>>

\* (mutant) the walk is made for the profile named in the call
ShellFilesNamed(name) ==
    FilesNew(Some(Join(ShellRootPath(root_path), PathOf(name))))

\* shell_files(&mut self, _name): Files::new(self.current_shell_path())
ShellFiles(name) == FilesNew(CurrentShellPath)

\* config.shell_files(name).into_iter()
shell_files(name) ==
    /\ ~panicked
    /\ LET made == ShellFiles(name)
       IN  files' = [state |-> "iter", some |-> made.some, prefix |-> made.prefix,
                     walk |-> made.walk, active |-> known]
    /\ yielded' = <<>>
    /\ last' = Call("shell_files", name, "none", FALSE, <<>>, <<>>)
    /\ UNCHANGED <<fs, root_path, current_shell, panicked, known, denied, ext, lvars>>

\* one call of next on the iterator shell_files gave
FilesIter_next ==
    /\ ~panicked
    /\ files.state = "iter"
    /\ \E o \in FilesIterNext(fs, denied, files) :
          IF o.kind = "none"
          THEN /\ files' = [files EXCEPT !.state = "done", !.walk = o.w]
               /\ UNCHANGED <<yielded, panicked>>
          ELSE LET rel == StripPrefix(o.path, files.prefix)
               IN  IF rel.err # "none"
                   THEN /\ panicked' = TRUE
                        /\ files' = [files EXCEPT !.walk = o.w]
                        /\ UNCHANGED yielded
                   ELSE /\ yielded' = Append(yielded, rel.path)
                        /\ files' = [files EXCEPT !.walk = o.w]
                        /\ UNCHANGED panicked
    /\ last' = Call("next", "", "none", FALSE, <<>>, <<>>)
    /\ UNCHANGED <<fs, root_path, current_shell, known, denied, ext, lvars>>

----------------------------------------------------------------------------
(* What other programs do to the hermit root between the store's calls *)

MaxExt == 1

External ==
    Call("external", "", "none", FALSE, <<>>,
         IF last.call = "shell_exists"
         THEN <<[arg |-> last.arg, flag |-> last.flag]>> ELSE <<>>)

Quiet == ~panicked /\ files.state # "iter" /\ ext < MaxExt

\* the marker file is written, as the tests' set_up writes it
ExtWriteMarker(b) ==
    /\ Quiet
    /\ KindAt(fs, HermitRoot) = "dir"
    /\ KindAt(fs, ConfigPath(HermitRoot)) \in {"none", "file"}
    /\ fs' = (ConfigPath(HermitRoot) :> FileWith(b)) @@ fs
    /\ fs' # fs
    /\ ext' = ext + 1
    /\ last' = External
    /\ files' = Dropped(files)
    /\ yielded' = Kept(files, yielded)
    /\ UNCHANGED <<root_path, current_shell, panicked, known, denied, lvars>>

\* the marker file is deleted
ExtRemoveMarker ==
    /\ Quiet
    /\ KindAt(fs, ConfigPath(HermitRoot)) = "file"
    /\ fs' = [q \in DOMAIN fs \ {ConfigPath(HermitRoot)} |-> fs[q]]
    /\ ext' = ext + 1
    /\ last' = External
    /\ files' = Dropped(files)
    /\ yielded' = Kept(files, yielded)
    /\ UNCHANGED <<root_path, current_shell, panicked, known, denied, lvars>>

\* a profile directory is made, as the tests' set_up makes them
ExtMkdir(n) ==
    /\ Quiet
    /\ KindAt(fs, ShellRootPath(HermitRoot)) = "dir"
    /\ KindAt(fs, ShellRootPath(HermitRoot) \o <<n>>) = "none"
    /\ fs' = (ShellRootPath(HermitRoot) \o <<n>> :> DirEntry) @@ fs
    /\ ext' = ext + 1
    /\ last' = External
    /\ files' = Dropped(files)
    /\ yielded' = Kept(files, yielded)
    /\ UNCHANGED <<root_path, current_shell, panicked, known, denied, lvars>>

\* a profile directory is removed with what it holds, as clean_up removes
ExtRmdir(n) ==
    /\ Quiet
    /\ KindAt(fs, ShellRootPath(HermitRoot) \o <<n>>) = "dir"
    /\ fs' = [q \in { r \in DOMAIN fs : ~IsPrefix(ShellRootPath(HermitRoot) \o <<n>>, r) }
                |-> fs[q]]
    /\ ext' = ext + 1
    /\ last' = External
    /\ files' = Dropped(files)
    /\ yielded' = Kept(files, yielded)
    /\ UNCHANGED <<root_path, current_shell, panicked, known, denied, lvars>>

----------------------------------------------------------------------------
(* The hermit roots the store starts on *)

ShProfile == ShellRootPath(HermitRoot) \o <<"sh">>
ShellProfile == ShellRootPath(HermitRoot) \o <<"shell">>

RootFs == (<<"/">> :> DirEntry) @@ (WorkDir :> DirEntry) @@ (HermitRoot :> DirEntry)

MarkerChoices ==
    { <<>>,
      (ConfigPath(HermitRoot) :> FileWith(AsBytes("sh"))),
      (ConfigPath(HermitRoot) :> FileWith(AsBytes("shell"))),
      (ConfigPath(HermitRoot) :> FileWith(BadBytes)),
      (ConfigPath(HermitRoot) :> DirEntry) }

\* the profile of the tests' can_walk_a_directory, with the file two levels down
DeepFileTree ==
    (ShProfile :> DirEntry) @@ (ShProfile \o <<"a">> :> DirEntry)
    @@ (ShProfile \o <<"a", "b">> :> DirEntry)
    @@ (ShProfile \o <<"a", "b", "file1">> :> FileEntry)

\* a profile with a link back to itself and a link out of it
LinkTree ==
    (ShProfile :> DirEntry) @@ (ShProfile \o <<"a">> :> DirEntry)
    @@ (ShProfile \o <<"a", "loop">> :> LinkEntry(ShProfile))
    @@ (ShProfile \o <<"out">> :> LinkEntry(HermitRoot))
    @@ (ShProfile \o <<"f">> :> FileEntry)

ShChoices ==
    { <<>>, (ShProfile :> DirEntry), (ShProfile :> FileEntry), DeepFileTree, LinkTree }

ShellChoices ==
    { <<>>, (ShellProfile :> DirEntry) @@ (ShellProfile \o <<"g">> :> FileEntry) }

ShellsChoices ==
    { <<>> } \cup
    { (ShellRootPath(HermitRoot) :> DirEntry) @@ a @@ b :
         a \in ShChoices, b \in ShellChoices }

StoreFilesystems ==
    { (<<"/">> :> DirEntry) @@ (WorkDir :> DirEntry) } \cup
    { RootFs @@ m @@ t : m \in MarkerChoices, t \in ShellsChoices }

\* what the process may not open
DeniedChoices == { {}, {ShProfile \o <<"a">>}, {ConfigPath(HermitRoot)} }

ConfigInit ==
    /\ fs \in StoreFilesystems
    /\ denied \in { d \in DeniedChoices : d \subseteq DOMAIN fs }
    /\ root_path = FsConfigNew(fs, denied, HermitRoot).root_path
    /\ current_shell = FsConfigNew(fs, denied, HermitRoot).current_shell
    /\ known = OkOf(ReadShellFromPath(fs, denied, ConfigPath(HermitRoot)))
    /\ files = NoFiles
    /\ yielded = <<>>
    /\ panicked = FALSE
    /\ last = Call("new", "", "none", FALSE, <<>>, <<>>)
    /\ ext = 0
    /\ root = HomeDir
    /\ operations = <<>>
    /\ pc = "building"
    /\ ops = <<>>
    /\ results = <<>>
    /\ fs0 = fs
    /\ args = <<>>
    /\ ran = <<>>

ConfigNext ==
    \/ FsConfig_new
    \/ \E name \in ShellNames, refused \in BOOLEAN : set_current_shell_name(name, refused)
    \/ current_shell_name
    \/ \E name \in ShellNames : shell_exists(name)
    \/ \E name \in ShellNames : shell_files(name)
    \/ FilesIter_next
    \/ \E b \in {AsBytes("sh"), AsBytes("shell"), BadBytes} : ExtWriteMarker(b)
    \/ ExtRemoveMarker
    \/ \E n \in ShellNames : ExtMkdir(n)
    \/ \E n \in ShellNames : ExtRmdir(n)

ConfigSpec == ConfigInit /\ [][ConfigNext]_vars

\* C11: a remove operation deletes the one entry it names and nothing else;
\* where the target is a directory or nothing is there it fails and the
\* filesystem is as it was.
C11_RemoveOneFile ==
    \A i \in 1..Len(ran) :
       ran[i].op.type = "Remove" =>
          LET b == ran[i].before
              a == ran[i].after
              t == Locate(b, root \o args[i].given[1]).loc
          IN  /\ IsOk(ran[i].result) =>
                    /\ KindAt(b, t) \in {"file", "link"}
                    /\ DOMAIN a = DOMAIN b \ {t}
                    /\ \A q \in DOMAIN a : a[q] = b[q]
              /\ KindAt(b, t) \in {"file", "link"} => IsOk(ran[i].result)
              /\ KindAt(b, t) \in {"dir", "none"} =>
                    /\ ran[i].result.variant = "IoError"
                    /\ a = b

C11_Witness ==
    /\ Len(ran) = 2
    /\ ran[1].op = Remove(HomeDir \o AliasPath)
    /\ ran[2].op = Remove(HomeDir \o <<"x">>)
    /\ KindAt(fs0, HomeDir \o AliasPath) = "file"
    /\ KindAt(fs0, HomeDir \o <<"x">>) = "dir"
    /\ IsOk(results[1]) /\ IsErr(results[2])
    /\ DOMAIN fs = DOMAIN fs0 \ {HomeDir \o AliasPath}

----------------------------------------------------------------------------
(* Claims on the shell store, checked under ConfigSpec *)

MarkerHolds(f, t) ==
    /\ KindAt(f, ConfigPath(HermitRoot)) = "file"
    /\ f[ConfigPath(HermitRoot)].data = AsBytes(t)

\* C12: set_current_shell_name writes first and updates after: a call that
\* fails leaves the cached name as it was, and the cached name changes in a
\* call only when that call succeeded and the marker holds the new name.
C12_WriteThenUpdate ==
    [][ /\ (last'.call = "set" /\ last'.err # "none") => current_shell' = current_shell
        /\ (last'.call = "set" /\ current_shell' # current_shell) =>
              /\ last'.err = "none"
              /\ current_shell' = Some(last'.arg)
              /\ MarkerHolds(fs', last'.arg)
        /\ current_shell' # current_shell => last'.call \in {"set", "new"}
      ]_vars

C12_Witness ==
    /\ last.call = "set"
    /\ last.err # "none"
    /\ current_shell # None
    /\ current_shell # Some(last.arg)
    /\ MarkerHolds(fs, "")

\* C13: after set_current_shell_name(x) succeeds the cached name is x, the
\* marker file holds exactly the bytes of x whatever it held before, and a
\* store constructed afresh on the same root has x as its active profile.
C13_RoundTrip ==
    (last.call = "set" /\ last.err = "none") =>
        /\ CurrentShellName = Some(last.arg)
        /\ MarkerHolds(fs, last.arg)
        /\ FsConfigNew(fs, denied, root_path).current_shell = Some(last.arg)

C13_Witness ==
    /\ last.call = "set"
    /\ last.err = "none"
    /\ last.arg = "sh"
    /\ ext = 0
    /\ MarkerHolds(fs0, "shell")
    /\ MarkerHolds(fs, "sh")

\* C14 (as claimed): a store constructed with no active profile is one whose
\* marker file is absent; every other failure to load the marker is returned
\* as an error and no store with no active profile comes of it.
C14_AsClaimed ==
    (last.call = "new" /\ current_shell = None) =>
        ReadShellFromPath(fs, denied, ConfigPath(root_path)).err = "NotFound"

\* C15: shell_exists(n) answers whether n is a directory directly under
\* root/shells when it is called, and answers false where root/shells is
\* missing.
C15_ShellExistsNow ==
    last.call = "shell_exists" =>
        /\ last.flag <=> KindAt(fs, ShellRootPath(HermitRoot) \o <<last.arg>>) = "dir"
        /\ KindAt(fs, ShellRootPath(HermitRoot)) = "none" => ~last.flag

C15_Witness ==
    /\ last.call = "shell_exists"
    /\ last.prev # <<>>
    /\ last.prev[1].arg = last.arg
    /\ last.prev[1].flag # last.flag

Paths(y) == { y[i] : i \in 1..Len(y) }

\* the profile "sh" holds what the tree holds and nothing more
ProfileIs(f, tree) ==
    { q \in DOMAIN f : IsPrefix(ShProfile, q) } = DOMAIN tree

\* C16 (as claimed): the walk of an active profile whose only content is the
\* file a/b/file1 yields the one path a/b/file1.
C16_AsClaimed ==
    ( /\ files.state = "done"
      /\ files.active = Some("sh")
      /\ ProfileIs(fs, DeepFileTree)
      /\ denied = {} ) =>
        yielded = << <<"a", "b", "file1">> >>

\* C17: with no active profile shell_files gives an iterator that ends at
\* once: nothing is yielded and nothing panics.
C17_NoActiveNoFiles ==
    (files.state # "none" /\ files.active = None) =>
        /\ yielded = <<>>
        /\ ~panicked
        /\ files.state = "iter" =>
              \A o \in FilesIterNext(fs, denied, files) : o.kind = "none"

C17_Witness ==
    /\ files.state = "done"
    /\ files.active = None
    /\ yielded = <<>>
    /\ KindAt(fs, ShProfile \o <<"a">>) = "dir"

\* C18: the prefix strip never fails: the walk starts from the path kept as
\* prefix, every entry the walk returns lies under that prefix, and no call
\* of next has panicked, whatever the store is told meanwhile.
C18_StripNeverFails ==
    /\ ~panicked
    /\ files.state = "iter" =>
          /\ files.walk.start # None => files.walk.start = Some(files.prefix)
          /\ \A i \in 1..Len(files.walk.stack) :
                IsPrefix(files.prefix, files.walk.stack[i].path)
          /\ \A o \in FilesIterNext(fs, denied, files) :
                o.kind = "ok" => StripPrefix(o.path, files.prefix).err = "none"

C18_Witness ==
    /\ files.state = "iter"
    /\ last.call = "next"
    /\ Len(yielded) >= 2
    /\ CurrentShellPath # Some(files.prefix)

\* C19: current_shell_name returns the name cached at construction or by the
\* last successful set_current_shell_name, also after the marker file has
\* been changed or deleted by another program.
C19_ReturnsCached ==
    last.call = "current_shell_name" => last.name = known

C19_Witness ==
    /\ last.call = "current_shell_name"
    /\ ext > 0
    /\ last.name # None
    /\ OkOf(ReadShellFromPath(fs, denied, ConfigPath(root_path))) # last.name

\* what lies under the walk's root, and what of it can be reached through
\* readable directories alone
Under(f, it) ==
    IF ~it.some THEN {}
    ELSE { q \in DOMAIN f : IsPrefix(it.prefix, q) /\ q # it.prefix }

Visible(f, den, it) ==
    { q \in Under(f, it) :
         \A k \in Len(it.prefix)..(Len(q) - 1) :
            KindAt(f, SubSeq(q, 1, k)) = "dir" /\ SubSeq(q, 1, k) \notin den }

Remaining(f, it, y) ==
    Cardinality(Under(f, it) \ { it.prefix \o p : p \in Paths(y) })
    + (IF it.state = "iter" THEN 1 ELSE 0)

\* C20: the walk ends: every call of next either yields an entry not yielded
\* before or ends the walk, so the calls are at most one more than the
\* entries under the root; nothing beneath a link is yielded; and at the end
\* every entry reachable through readable directories has been yielded, the
\* links and the unreadable directories themselves among them.
C20_WalkTerminates ==
    [][ (files.state = "iter" /\ last'.call = "next" /\ ~panicked') =>
          /\ Remaining(fs', files', yielded') < Remaining(fs, files, yielded)
          /\ \A i \in 1..Len(yielded') :
                \A k \in 1..(Len(yielded'[i]) - 1) :
                   KindAt(fs', files'.prefix \o SubSeq(yielded'[i], 1, k)) = "dir"
          /\ files'.state = "done" =>
                { files'.prefix \o p : p \in Paths(yielded') } = Visible(fs', denied', files')
      ]_vars

C20_Witness ==
    /\ files.state = "done"
    /\ ProfileIs(fs, LinkTree)
    /\ denied = {ShProfile \o <<"a">>}
    /\ Len(yielded) = 3
    /\ yielded[1] = <<"a">>
    /\ Paths(yielded) = { <<"a">>, <<"out">>, <<"f">> }

\* C21 (as claimed): on a store whose marker was loaded at construction, with
\* no change made to the hermit root from outside, the cached name is the
\* content of the marker file after any calls of set_current_shell_name,
\* failed ones among them.
C21_AsClaimed ==
    ( /\ ext = 0
      /\ OkOf(ReadShellFromPath(fs0, denied, ConfigPath(HermitRoot))) # None ) =>
        /\ current_shell # None
        /\ MarkerHolds(fs, current_shell[1])

\* C22: set_current_shell_name takes a name with no directory under
\* root/shells; on a store whose active profile has no directory the walk
\* shell_files gives ends at once: nothing is yielded, nothing panics.
C22_AbsentProfileNoFiles ==
    ( /\ files.state # "none"
      /\ files.active # None
      /\ KindAt(fs, ShellRootPath(HermitRoot) \o PathOf(files.active[1])) = "none" ) =>
        /\ yielded = <<>>
        /\ ~panicked
        /\ files.state = "iter" =>
              \A o \in FilesIterNext(fs, denied, files) : o.kind = "none"

C22_Witness ==
    /\ ext = 0
    /\ MarkerHolds(fs0, "sh")
    /\ MarkerHolds(fs, "shell")
    /\ KindAt(fs, ShProfile \o <<"a">>) = "dir"
    /\ KindAt(fs, ShellProfile) = "none"
    /\ files.state = "done"
    /\ files.active = Some("shell")
    /\ yielded = <<>>
    /\ ~panicked

\* every sequence the iterator can yield when driven to its end
RECURSIVE AllRuns(_, _, _, _)
AllRuns(f, den, it, acc) ==
    UNION { IF o.kind = "none" THEN {acc}
            ELSE AllRuns(f, den, [it EXCEPT !.walk = o.w],
                         Append(acc, StripPrefix(o.path, it.prefix).path))
            : o \in FilesIterNext(f, den, it) }

\* the walk the cached name and the filesystem call for
ActiveWalk ==
    [some |-> known # None,
     prefix |-> IF known = None THEN <<>>
                ELSE ShellRootPath(HermitRoot) \o PathOf(known[1])]

\* C23: what shell_files(name) gives does not depend on name: the iterator
\* walks the directory of the cached active profile, and every sequence it
\* can yield holds the entries of that profile, also when name is the name
\* of another profile that exists.
C23_NameIgnored ==
    last.call = "shell_files" =>
        /\ files.some = ActiveWalk.some
        /\ files.some =>
              /\ files.prefix = ActiveWalk.prefix
              /\ files.walk = [start |-> Some(ActiveWalk.prefix), stack |-> <<>>]
        /\ \A run \in AllRuns(fs, denied, files, <<>>) :
              { ActiveWalk.prefix \o p : p \in Paths(run) } = Visible(fs, denied, ActiveWalk)

C23_Witness ==
    /\ last.call = "shell_files"
    /\ last.arg = "shell"
    /\ known = Some("sh")
    /\ KindAt(fs, ShellProfile \o <<"g">>) = "file"
    /\ ProfileIs(fs, DeepFileTree)
    /\ <<"a", "b", "file1">> \in UNION { Paths(run) : run \in AllRuns(fs, denied, files, <<>>) }

====
